---- MODULE Spec2Model ----
(***************************************************************************)
(* A model of the `friendly` crate: prefix families and autoscale          *)
(* (src/src/scale), significant-figure rounding (src/src/sigfig.rs) and    *)
(* the Quantity formatter (src/src/quantity.rs) and the duration formatter *)
(* (src/src/temporal.rs), on finite durations in whole milliseconds.       *)
(*                                                                         *)
(* Numbers.  An f64 is modelled as a record                                *)
(*     [kind, neg, mant, exp, base]                                        *)
(* kind is the IEEE class ("zero", "sub", "normal", "inf", "nan"); a       *)
(* normal or subnormal value has the magnitude mant * base^exp, with       *)
(* base 10 for values handled in the Decimal family and base 2 for values  *)
(* handled in the Binary family.  Arithmetic on these records is exact:    *)
(* the model says what the algorithms do on real numbers and does not      *)
(* model the rounding error of f64 multiplication, division, powi or       *)
(* log10.  Text is a sequence of one-character strings.                    *)
(***************************************************************************)
EXTENDS Integers, Sequences, FiniteSets, TLC

VARIABLES
    ar,     \* the last call of PrefixFamily::autoscale and what it returned
    sr,     \* the last call of sigscale and what it returned
    q,      \* the Quantity being configured
    out,    \* what Display::fmt wrote for q
    hd,     \* the HumanDuration being configured
    dout    \* what Display::fmt wrote for hd

vars == <<ar, sr, q, out, hd, dout>>

(***************************************************************************)
(* Bounds of the model.                                                    *)
(***************************************************************************)
\* mantissas of the normal inputs of autoscale: 1 .. MaxMant
MaxMant == 12
\* decimal exponents of the normal inputs of autoscale: -MaxDecExp .. MaxDecExp
MaxDecExp == 28
\* binary exponents of the normal inputs of autoscale: -MaxBinNegExp .. MaxBinExp
MaxBinExp == 84
MaxBinNegExp == 6
\* part counts of a HumanDuration: -1 .. MaxParts
MaxParts == 5
\* mantissas of the normal inputs of sigscale: 1 .. MaxSigMant
MaxSigMant == 120
\* decimal exponents of the normal inputs of sigscale: -MaxSigExp .. MaxSigExp
MaxSigExp == 4
\* significant-figure counts: 0 .. MaxSigFigs
MaxSigFigs == 4

None == [op |-> "none"]

(***************************************************************************)
(* Integer helpers.                                                        *)
(***************************************************************************)
RECURSIVE Pow(_, _)
Pow(b, n) == IF n <= 0 THEN 1 ELSE b * Pow(b, n - 1)

\* number of decimal digits of m >= 0 (0 has one digit)
RECURSIVE NumDigits(_)
NumDigits(m) == IF m < 10 THEN 1 ELSE 1 + NumDigits(m \div 10)

\* number of binary digits of m >= 1
RECURSIVE BitLen(_)
BitLen(m) == IF m < 2 THEN 1 ELSE 1 + BitLen(m \div 2)

\* m * b^e >= 1 for m >= 0, computed without forming b^e
RECURSIVE GeOne(_, _, _)
GeOne(m, e, b) ==
    IF e >= 0 THEN m >= 1
    ELSE IF m < b THEN FALSE
    ELSE GeOne(m \div b, e + 1, b)

Max(a, b) == IF a >= b THEN a ELSE b

(***************************************************************************)
(* f64 values.                                                             *)
(***************************************************************************)
Zero(base) == [kind |-> "zero", neg |-> FALSE, mant |-> 0, exp |-> 0, base |-> base]
Inf(neg, base) == [kind |-> "inf", neg |-> neg, mant |-> 0, exp |-> 0, base |-> base]
NaN(base) == [kind |-> "nan", neg |-> FALSE, mant |-> 0, exp |-> 0, base |-> base]
Normal(neg, mant, exp, base) ==
    [kind |-> "normal", neg |-> neg, mant |-> mant, exp |-> exp, base |-> base]
\* the smallest positive subnormal: 5e-324 = 2^-1074
MinSub(neg, base) ==
    [kind |-> "sub", neg |-> neg, mant |-> IF base = 10 THEN 5 ELSE 1,
     exp |-> IF base = 10 THEN -324 ELSE -1074, base |-> base]

\* f64::is_finite, f64::is_normal, f64::abs
IsFinite(v) == v.kind \notin {"inf", "nan"}
IsNormal(v) == v.kind = "normal"
Abs(v) == [v EXCEPT !.neg = FALSE]

\* The IEEE class of the magnitude mant * base^exp (mant >= 1): a result below
\* half the smallest subnormal underflows to zero, one below the smallest
\* normal (2^-1022, about 2.2e-308) is subnormal, one above the largest
\* finite value overflows.
ClassOf(mant, exp, base) ==
    IF base = 2
    THEN LET top == BitLen(mant) - 1 + exp
         IN  IF top >= 1024 THEN "inf"
             ELSE IF top >= -1022 THEN "normal"
             ELSE IF top < -1075 \/ (top = -1075 /\ mant = Pow(2, BitLen(mant) - 1))
                  THEN "zero"
             ELSE "sub"
    ELSE LET top == NumDigits(mant) - 1 + exp
         IN  IF top >= 309 THEN "inf"
             ELSE IF top >= -307 THEN "normal"
             ELSE IF top < -324 THEN "zero"
             ELSE "sub"

\* x / y for a divisor y = base^k (a prefix multiplier), in x's base
Div(x, y) ==
    IF x.kind \in {"nan", "inf", "zero"} THEN x
    ELSE LET e == x.exp - y.exp
             k == ClassOf(x.mant, e, x.base)
         IN  IF k \in {"inf", "zero"}
             THEN [kind |-> k, neg |-> x.neg, mant |-> 0, exp |-> 0, base |-> x.base]
             ELSE [x EXCEPT !.kind = k, !.exp = e]

\* |v| < base^k, as f64 comparison decides it (every comparison with NaN is false)
LtPow(v, k) ==
    CASE v.kind = "nan" -> FALSE
      [] v.kind = "inf" -> FALSE
      [] v.kind = "zero" -> TRUE
      [] OTHER -> ~GeOne(v.mant, v.exp - k, v.base)

\* v < 1.0 for v >= 0
LtOne(v) == LtPow(v, 0)

\* v >= 1.0 for v >= 0
GeOneVal(v) ==
    CASE v.kind = "nan" -> FALSE
      [] v.kind = "inf" -> TRUE
      [] v.kind = "zero" -> FALSE
      [] OTHER -> GeOne(v.mant, v.exp, v.base)

(***************************************************************************)
(* Prefixes and prefix families (src/src/scale).                           *)
(***************************************************************************)
DecimalNew(pfx, exp) == [fam |-> "Decimal", pfx |-> pfx, exp |-> exp]
BinaryNew(pfx, exp) == [fam |-> "Binary", pfx |-> pfx, exp |-> exp]

DecimalUNIT == DecimalNew(<<>>, 0)
DecimalKILO == DecimalNew(<<"k">>, 3)
DecimalMILLI == DecimalNew(<<"m">>, -3)
BinaryUNIT == BinaryNew(<<>>, 0)
BinaryKIBI == BinaryNew(<<"K", "i">>, 10)

\* A Decimal table that leaves KILO out.
DecimalALL_PREFIXES_NoKilo ==
    << DecimalNew(<<"y">>, -24), DecimalNew(<<"z">>, -21), DecimalNew(<<"a">>, -18),
       DecimalNew(<<"f">>, -15), DecimalNew(<<"p">>, -12), DecimalNew(<<"n">>, -9),
       DecimalNew(<<"u">>, -6), DecimalMILLI, DecimalUNIT,
       DecimalNew(<<"M">>, 6), DecimalNew(<<"G">>, 9), DecimalNew(<<"T">>, 12),
       DecimalNew(<<"P">>, 15), DecimalNew(<<"E">>, 18), DecimalNew(<<"Z">>, 21),
       DecimalNew(<<"Y">>, 24) >>

\* Decimal::ALL_PREFIXES; the label of MICRO is the one letter mu, written u here
DecimalALL_PREFIXES ==
    << DecimalNew(<<"y">>, -24), DecimalNew(<<"z">>, -21), DecimalNew(<<"a">>, -18),
       DecimalNew(<<"f">>, -15), DecimalNew(<<"p">>, -12), DecimalNew(<<"n">>, -9),
       DecimalNew(<<"u">>, -6), DecimalMILLI, DecimalUNIT, DecimalKILO,
       DecimalNew(<<"M">>, 6), DecimalNew(<<"G">>, 9), DecimalNew(<<"T">>, 12),
       DecimalNew(<<"P">>, 15), DecimalNew(<<"E">>, 18), DecimalNew(<<"Z">>, 21),
       DecimalNew(<<"Y">>, 24) >>

BinaryALL_PREFIXES ==
    << BinaryUNIT, BinaryKIBI, BinaryNew(<<"M", "i">>, 20), BinaryNew(<<"G", "i">>, 30),
       BinaryNew(<<"T", "i">>, 40), BinaryNew(<<"P", "i">>, 50),
       BinaryNew(<<"E", "i">>, 60), BinaryNew(<<"Z", "i">>, 70),
       BinaryNew(<<"Y", "i">>, 80) >>

Families == {"Decimal", "Binary"}

\* Prefix::base, Prefix::exponent, Prefix::label
Base(p) == IF p.fam = "Decimal" THEN 10 ELSE 2
Exponent(p) == p.exp
Label(p) == p.pfx
FamilyBase(F) == IF F = "Decimal" THEN 10 ELSE 2

\* Prefix::multiplier: base.powi(exp); Binary overrides it with 1u128 << exp
Multiplier(p) == Normal(FALSE, 1, Exponent(p), Base(p))

\* Prefix::scale_value
ScaleValue(p, x) == Div(x, Multiplier(p))

\* PrefixFamily::all_prefixes
AllPrefixes(F) == IF F = "Decimal" THEN DecimalALL_PREFIXES ELSE BinaryALL_PREFIXES

\* Binary::unit_prefix
BinaryUnitPrefix == BinaryUNIT

\* Decimal::unit_prefix: the designated unit prefix, empty label and exponent 0
DecimalUnitPrefix == DecimalUNIT

UnitPrefix(F) == IF F = "Decimal" THEN DecimalUnitPrefix ELSE BinaryUnitPrefix

\* A scan that tests the prefix it holds instead of the candidate.
RECURSIVE AutoscaleScanTestsCur(_, _, _, _)
AutoscaleScanTestsCur(pfxs, val, cur, i) ==
    IF i > Len(pfxs) THEN [cur |-> cur, examined |-> Len(pfxs) - 1]
    ELSE IF LtOne(Abs(ScaleValue(pfxs[cur], val)))
         THEN [cur |-> cur, examined |-> i - 1]
         ELSE AutoscaleScanTestsCur(pfxs, val, i, i + 1)

\* A scan that adopts a candidate only when it leaves a magnitude above 1.0.
RECURSIVE AutoscaleScanStrict(_, _, _, _)
AutoscaleScanStrict(pfxs, val, cur, i) ==
    IF i > Len(pfxs) THEN [cur |-> cur, examined |-> Len(pfxs) - 1]
    ELSE IF LtOne(Abs(ScaleValue(pfxs[i], val)))
            \/ Abs(ScaleValue(pfxs[i], val)) = Normal(FALSE, 1, 0, val.base)
         THEN [cur |-> cur, examined |-> i - 1]
         ELSE AutoscaleScanStrict(pfxs, val, i, i + 1)

\* The loop of autoscale: cur is the index of the prefix held, i the index of
\* the candidate `next`; examined counts the candidates the loop has tested.
RECURSIVE AutoscaleScan(_, _, _, _)
AutoscaleScan(pfxs, val, cur, i) ==
    IF i > Len(pfxs) THEN [cur |-> cur, examined |-> Len(pfxs) - 1]
    ELSE IF LtOne(Abs(ScaleValue(pfxs[i], val)))
         THEN [cur |-> cur, examined |-> i - 1]
         ELSE AutoscaleScan(pfxs, val, i, i + 1)

\* An autoscale that sends only non-finite values to the unit prefix.
AutoscaleNoNormalTest(F, val) ==
    IF ~IsFinite(val)
    THEN [sx |-> val, prefix |-> UnitPrefix(F), examined |-> 0]
    ELSE LET pfxs == AllPrefixes(F)
             r == AutoscaleScan(pfxs, val, 1, 2)
         IN  [sx |-> ScaleValue(pfxs[r.cur], val), prefix |-> pfxs[r.cur],
              examined |-> r.examined]

\* PrefixFamily::autoscale
Autoscale(F, val) ==
    IF ~IsFinite(val) \/ ~IsNormal(val)
    THEN [sx |-> val, prefix |-> UnitPrefix(F), examined |-> 0]
    ELSE LET pfxs == AllPrefixes(F)
             r == AutoscaleScan(pfxs, val, 1, 2)
         IN  [sx |-> ScaleValue(pfxs[r.cur], val), prefix |-> pfxs[r.cur],
              examined |-> r.examined]

(***************************************************************************)
(* Calls of autoscale on their own.                                        *)
(***************************************************************************)
Signs == {FALSE, TRUE}

DegenerateValues(base) ==
    {Zero(base), NaN(base)} \cup {Inf(s, base) : s \in Signs}
        \cup {MinSub(s, base) : s \in Signs}

AutoscaleInputs(F) ==
    LET b == FamilyBase(F)
        exps == IF F = "Decimal" THEN (0 - MaxDecExp)..MaxDecExp
                ELSE (0 - MaxBinNegExp)..MaxBinExp
    IN  DegenerateValues(b)
            \cup {Normal(s, m, e, b) : s \in Signs, m \in 1..MaxMant, e \in exps}

AutoscaleCalls ==
    UNION {{[op |-> "call", family |-> F, val |-> v] : v \in AutoscaleInputs(F)}
              : F \in Families}

InitAutoscale ==
    /\ ar \in AutoscaleCalls /\ sr = None /\ q = None /\ out = None
    /\ hd = None /\ dout = None

CallAutoscale ==
    /\ ar.op = "call"
    /\ LET r == Autoscale(ar.family, ar.val)
       IN  ar' = [op |-> "autoscale", family |-> ar.family, val |-> ar.val,
                  sx |-> r.sx, prefix |-> r.prefix, examined |-> r.examined]
    /\ UNCHANGED <<sr, q, out, hd, dout>>

NextAutoscale == CallAutoscale

SpecAutoscale == InitAutoscale /\ [][NextAutoscale]_vars

(***************************************************************************)
(* Decimal text of numbers.                                                *)
(***************************************************************************)
DigitChars == <<"0", "1", "2", "3", "4", "5", "6", "7", "8", "9">>

RECURSIVE Digits(_)
Digits(m) ==
    IF m < 10 THEN <<DigitChars[m + 1]>>
    ELSE Append(Digits(m \div 10), DigitChars[(m % 10) + 1])

Zeros(n) == [i \in 1..n |-> "0"]

\* The same normal number written as mant * 10^exp.
ToDecimal(v) ==
    IF v.base = 10 THEN v
    ELSE IF v.exp >= 0
         THEN [v EXCEPT !.mant = v.mant * Pow(2, v.exp), !.exp = 0, !.base = 10]
         ELSE [v EXCEPT !.mant = v.mant * Pow(5, 0 - v.exp), !.base = 10]

\* mant * 10^exp with the trailing zeros of mant moved into exp
RECURSIVE StripZeros(_)
StripZeros(v) ==
    IF v.mant > 0 /\ v.mant % 10 = 0
    THEN StripZeros([v EXCEPT !.mant = v.mant \div 10, !.exp = v.exp + 1])
    ELSE v

\* m / 10^k rounded to an integer, halves away from zero (f64::round), k >= 1
RoundHalfAway(m, k) == ((m \div Pow(10, k - 1)) + 5) \div 10

\* m / 10^k rounded to an integer, halves to even (the rounding of the
\* fixed-point formatter), k >= 1
RoundHalfEven(m, k) ==
    IF k > NumDigits(m) THEN 0
    ELSE LET lead == m \div Pow(10, k - 1)
             rest == m % Pow(10, k - 1)
             quot == lead \div 10
             last == lead % 10
         IN  IF last > 5 \/ (last = 5 /\ (rest > 0 \/ quot % 2 = 1))
             THEN quot + 1 ELSE quot

SignText(v) == IF v.neg THEN <<"-">> ELSE <<>>

\* the digits of m * 10^(-k), k >= 0, with exactly prec >= k fractional digits
FixedDigits(m, k, prec) ==
    LET D == Digits(m)
        L == Len(D)
        int == IF L > k THEN SubSeq(D, 1, L - k) ELSE <<"0">>
        frac == (IF L > k THEN SubSeq(D, L - k + 1, L) ELSE Zeros(k - L) \o D)
                    \o Zeros(prec - k)
    IN  int \o (IF prec > 0 THEN <<".">> \o frac ELSE <<>>)

\* write!(f, "{:.*}", prec, v): fixed point with exactly prec fractional
\* digits.  A subnormal is below 10^-307 and prints as zero at every
\* precision the model uses.
FmtFixed(v, prec) ==
    CASE v.kind = "nan" -> <<"N", "a", "N">>
      [] v.kind = "inf" -> SignText(v) \o <<"i", "n", "f">>
      [] v.kind \in {"zero", "sub"} -> SignText(v) \o FixedDigits(0, 0, prec)
      [] OTHER ->
            LET d == ToDecimal(v)
            IN  IF d.exp >= 0
                THEN SignText(v) \o
                     (IF d.mant = 0 THEN <<"0">> ELSE Digits(d.mant) \o Zeros(d.exp))
                     \o (IF prec > 0 THEN <<".">> \o Zeros(prec) ELSE <<>>)
                ELSE IF 0 - d.exp > prec
                THEN SignText(v) \o
                     FixedDigits(RoundHalfEven(d.mant, (0 - d.exp) - prec), prec, prec)
                ELSE SignText(v) \o FixedDigits(d.mant, 0 - d.exp, prec)

\* write!(f, "{}", value): the native text of a number, the shortest decimal
\* that reads back as the same value, never in scientific notation.
Display(v) ==
    CASE v.kind = "nan" -> <<"N", "a", "N">>
      [] v.kind = "inf" -> SignText(v) \o <<"i", "n", "f">>
      [] v.kind = "zero" -> SignText(v) \o <<"0">>
      [] v.kind = "sub" -> SignText(v) \o <<"0", ".">> \o Zeros(323) \o <<"5">>
      [] OTHER ->
            LET d == StripZeros(ToDecimal(v))
            IN  IF d.exp >= 0
                THEN SignText(v) \o Digits(d.mant) \o Zeros(d.exp)
                ELSE SignText(v) \o FixedDigits(d.mant, 0 - d.exp, 0 - d.exp)

(***************************************************************************)
(* Significant figures (src/src/sigfig.rs).                                *)
(***************************************************************************)
\* val.abs().log10().ceil() of a normal decimal value
Log10Ceil(v) ==
    IF v.mant = Pow(10, NumDigits(v.mant) - 1)
    THEN NumDigits(v.mant) - 1 + v.exp
    ELSE NumDigits(v.mant) + v.exp

\* log == log.ceil(): the value is an exact power of ten
Log10IsInt(v) == v.mant = Pow(10, NumDigits(v.mant) - 1)

\* (val * adj).round() / adj with adj = 10^scale_diff
RoundAt(v, scale_diff) ==
    LET x == v.exp + scale_diff
    IN  IF x >= 0 THEN v
        ELSE LET r == RoundHalfAway(v.mant, 0 - x)
             IN  IF r = 0
                 THEN [kind |-> "zero", neg |-> v.neg, mant |-> 0, exp |-> 0,
                       base |-> 10]
                 ELSE [v EXCEPT !.mant = r, !.exp = 0 - scale_diff]

\* A sigscale without the adjustment at an exact power of ten.
SigscaleNoBoundary(val, sf) ==
    IF IsNormal(val)
    THEN LET v == ToDecimal(val)
             scale == Log10Ceil(v)
             scale_diff == sf - scale
         IN  [val |-> RoundAt(v, scale_diff), prec |-> Max(scale_diff, 0)]
    ELSE [val |-> val, prec |-> sf]

\* A sigscale that asks for no fractional digits when the value is not normal.
SigscaleDegenerateNoDigits(val, sf) ==
    IF IsNormal(val)
    THEN LET v == ToDecimal(val)
             scale == IF Log10IsInt(v) THEN Log10Ceil(v) + 1 ELSE Log10Ceil(v)
             scale_diff == sf - scale
         IN  [val |-> RoundAt(v, scale_diff), prec |-> Max(scale_diff, 0)]
    ELSE [val |-> val, prec |-> 0]

\* sigscale
Sigscale(val, sf) ==
    IF IsNormal(val)
    THEN LET v == ToDecimal(val)
             scale == IF Log10IsInt(v) THEN Log10Ceil(v) + 1 ELSE Log10Ceil(v)
             scale_diff == sf - scale
         IN  [val |-> RoundAt(v, scale_diff), prec |-> Max(scale_diff, 0)]
    ELSE [val |-> val, prec |-> sf]

(***************************************************************************)
(* Calls of sigscale on their own.                                         *)
(***************************************************************************)
SigscaleInputs ==
    DegenerateValues(10)
        \cup {Normal(s, m, e, 10) : s \in Signs, m \in 1..MaxSigMant,
                                    e \in (0 - MaxSigExp)..MaxSigExp}

SigscaleCalls ==
    {[op |-> "call", val |-> v, sf |-> n] : v \in SigscaleInputs, n \in 0..MaxSigFigs}

InitSigscale ==
    /\ sr \in SigscaleCalls /\ ar = None /\ q = None /\ out = None
    /\ hd = None /\ dout = None

CallSigscale ==
    /\ sr.op = "call"
    /\ LET r == Sigscale(sr.val, sr.sf)
       IN  sr' = [op |-> "sigscale", val |-> sr.val, sf |-> sr.sf,
                  adj_val |-> r.val, prec |-> r.prec]
    /\ UNCHANGED <<ar, q, out, hd, dout>>

NextSigscale == CallSigscale

SpecSigscale == InitSigscale /\ [][NextSigscale]_vars

(***************************************************************************)
(* Quantity (src/src/quantity.rs).                                         *)
(***************************************************************************)
\* the default number of significant figures
DefaultSigFigs == 4

\* Scale::Native, Scale::Auto, Scale::Fixed(prefix)
ScaleNative == [tag |-> "Native"]
ScaleAuto == [tag |-> "Auto"]
ScaleFixed(p) == [tag |-> "Fixed", pfx |-> p]

\* Quantity::new
QuantityNew(F, value) ==
    [value |-> value, family |-> F, scale |-> ScaleAuto, sfx_str |-> <<>>,
     nsig |-> DefaultSigFigs, spc |-> TRUE, integral |-> FALSE]

\* A match that autoscales a Native quantity too.
ResolveNativeAsAuto(qq) ==
    CASE qq.scale.tag \in {"Native", "Auto"} ->
            LET r == Autoscale(qq.family, qq.value)
            IN  [some |-> TRUE, sv |-> r.sx, scale |-> r.prefix]
      [] OTHER ->
            [some |-> TRUE, sv |-> ScaleValue(qq.scale.pfx, qq.value),
             scale |-> qq.scale.pfx]

\* the match on self.scale: the scaled value and its prefix, if any
Resolve(qq) ==
    CASE qq.scale.tag = "Native" -> [some |-> FALSE]
      [] qq.scale.tag = "Auto" ->
            LET r == Autoscale(qq.family, qq.value)
            IN  [some |-> TRUE, sv |-> r.sx, scale |-> r.prefix]
      [] OTHER ->
            [some |-> TRUE, sv |-> ScaleValue(qq.scale.pfx, qq.value),
             scale |-> qq.scale.pfx]

\* A filter that drops every integral quantity from the scaled branch.
KeepScaledIntegralOnly(qq, r) == r.some /\ ~qq.integral

\* scaled.filter(|(_v, pfx)| pfx.exponent() != 0 || !self.integral)
KeepScaled(qq, r) == r.some /\ (Exponent(r.scale) # 0 \/ ~qq.integral)

\* A separator test that forgets the prefix label.
ScaledSeparatorSuffixOnly(qq, sl) ==
    IF qq.spc /\ qq.sfx_str # <<>> THEN <<" ">> ELSE <<>>

\* if self.spc && (!sl.is_empty() || !self.sfx_str.is_empty()) { write " " }
ScaledSeparator(qq, sl) ==
    IF qq.spc /\ (sl # <<>> \/ qq.sfx_str # <<>>) THEN <<" ">> ELSE <<>>

\* if self.spc && !self.sfx_str.is_empty() { write " " }
NativeSeparator(qq) ==
    IF qq.spc /\ qq.sfx_str # <<>> THEN <<" ">> ELSE <<>>

Concat(ws) == ws[1] \o ws[2] \o ws[3] \o ws[4]

\* the scaled branch of fmt: number, separator, label, suffix
FmtScaled(qq, r) ==
    LET s == Sigscale(r.sv, qq.nsig)
        sl == Label(r.scale)
        ws == <<FmtFixed(s.val, s.prec), ScaledSeparator(qq, sl), sl, qq.sfx_str>>
    IN  [branch |-> "scaled", prefix |-> r.scale, sv |-> r.sv, prec |-> s.prec,
         writes |-> ws, text |-> Concat(ws)]

\* the native branch of fmt: number, separator, suffix (no label)
FmtNative(qq) ==
    LET ws == <<Display(qq.value), NativeSeparator(qq), <<>>, qq.sfx_str>>
    IN  [branch |-> "native", writes |-> ws, text |-> Concat(ws)]

\* <Quantity as Display>::fmt
Fmt(qq) ==
    LET r == Resolve(qq)
    IN  IF KeepScaled(qq, r) THEN FmtScaled(qq, r) ELSE FmtNative(qq)

(***************************************************************************)
(* Quantities: construction, the builder calls, formatting.                *)
(***************************************************************************)
\* the values quantities are made of: the degenerate values and, in each
\* family, a few normal ones (13200 = 825 * 2^4, 0.023477, 15_250_000, ...)
QuantityInputs(F) ==
    DegenerateValues(FamilyBase(F)) \cup
    (IF F = "Decimal"
     THEN {Normal(FALSE, 1, 0, 10), Normal(FALSE, 10324, 0, 10),
           Normal(FALSE, 1525, 4, 10), Normal(FALSE, 23477, -6, 10),
           Normal(TRUE, 5, -1, 10), Normal(FALSE, 99996, -2, 10),
           Normal(FALSE, 132, 2, 10), Normal(TRUE, 42, 0, 10)}
     ELSE {Normal(FALSE, 1, 0, 2), Normal(FALSE, 825, 4, 2),
           Normal(FALSE, 1, 10, 2), Normal(FALSE, 3, 20, 2),
           Normal(TRUE, 1, -1, 2), Normal(TRUE, 5, 0, 2)})

Suffixes == {<<>>, <<"B">>, <<"B", "/", "s">>}

FixedPrefixes(F) ==
    IF F = "Decimal" THEN {DecimalUNIT, DecimalKILO, DecimalMILLI}
    ELSE {BinaryUNIT, BinaryKIBI}

Scales(F) == {ScaleNative, ScaleAuto} \cup {ScaleFixed(p) : p \in FixedPrefixes(F)}

InitQuantity ==
    /\ q \in UNION {{QuantityNew(F, v) : v \in QuantityInputs(F)} : F \in Families}
    /\ out = None /\ ar = None /\ sr = None
    /\ hd = None /\ dout = None

\* Quantity::scale (within the quantity's family)
SetScale ==
    \E sc \in Scales(q.family) :
        /\ q' = [q EXCEPT !.scale = sc]
        /\ out' = None
        /\ UNCHANGED <<ar, sr, hd, dout>>

\* Quantity::suffix
SetSuffix ==
    \E sfx \in Suffixes :
        /\ q' = [q EXCEPT !.sfx_str = sfx]
        /\ out' = None
        /\ UNCHANGED <<ar, sr, hd, dout>>

\* Quantity::space
SetSpace ==
    \E b \in BOOLEAN :
        /\ q' = [q EXCEPT !.spc = b]
        /\ out' = None
        /\ UNCHANGED <<ar, sr, hd, dout>>

\* Quantity::sig_figs
SetSigFigs ==
    \E n \in 0..MaxSigFigs :
        /\ q' = [q EXCEPT !.nsig = n]
        /\ out' = None
        /\ UNCHANGED <<ar, sr, hd, dout>>

\* Quantity::integral
SetIntegral ==
    \E b \in BOOLEAN :
        /\ q' = [q EXCEPT !.integral = b]
        /\ out' = None
        /\ UNCHANGED <<ar, sr, hd, dout>>

\* to_string / format!: fmt writes the text and leaves the quantity alone
Format ==
    /\ out' = [op |-> "fmt"] @@ Fmt(q)
    /\ UNCHANGED <<q, ar, sr, hd, dout>>

NextQuantity ==
    \/ SetScale
    \/ SetSuffix
    \/ SetSpace
    \/ SetSigFigs
    \/ SetIntegral
    \/ Format

SpecQuantity == InitQuantity /\ [][NextQuantity]_vars

(***************************************************************************)
(* HumanDuration (src/src/temporal.rs).  A duration is a finite f64 of     *)
(* whole milliseconds, mant * 10^-3 seconds.  A component value is the     *)
(* exact quotient [neg, num, den]: num milliseconds over den.              *)
(***************************************************************************)
MIN_SECS == 60
HOUR_SECS == MIN_SECS * 60
DAY_SECS == HOUR_SECS * 24
WEEK_SECS == DAY_SECS * 7

\* the part count of a new duration
DefaultParts == 3

\* milliseconds in a second: the denominator of a value in seconds
Millis == Pow(10, 3)

\* the duration of ms milliseconds as an f64
Seconds(ms) ==
    IF ms = 0 THEN Zero(10)
    ELSE Normal(ms < 0, IF ms < 0 THEN 0 - ms ELSE ms, 0 - 3, 10)

\* the milliseconds of the magnitude of v
MillisOf(v) == IF v.kind = "zero" THEN 0 ELSE v.mant

\* v.abs() < span
AbsLt(v, span) == MillisOf(v) < span * Millis

\* v > span
Gt(v, span) == ~v.neg /\ MillisOf(v) > span * Millis

\* v % span: the remainder of the magnitude, with the sign of v
Rem(v, span) ==
    [neg |-> v.neg, num |-> MillisOf(v) % (span * Millis), den |-> Millis]

\* v as a quotient, and a quotient divided by span
Ratio(v) == [neg |-> v.neg, num |-> MillisOf(v), den |-> Millis]
Quot(r, span) == [r EXCEPT !.den = @ * span]

\* f64::floor
Floor(r) ==
    LET k == r.num \div r.den
    IN  [neg |-> r.neg,
         num |-> IF r.neg /\ r.num % r.den # 0 THEN k + 1 ELSE k,
         den |-> 1]

\* the f64 of a whole number (den = 1) or of a value in milliseconds
ToF64(r) ==
    IF r.num = 0 THEN [Zero(10) EXCEPT !.neg = r.neg]
    ELSE Normal(r.neg, r.num, IF r.den = 1 THEN 0 ELSE 0 - 3, 10)

new_from_secs(seconds) ==
    [seconds |-> seconds, compact |-> TRUE, parts |-> DefaultParts]

PartWriterNew(dur) ==
    [parts |-> dur.parts, written |-> 0, compact |-> dur.compact,
     text |-> <<>>, comps |-> <<>>]

\* A limit that lets one part too many through.
KeepGoingOffByOne(pw) == pw.parts <= 0 \/ pw.written <= pw.parts

KeepGoing(pw) == pw.parts <= 0 \/ pw.written < pw.parts

\* put_part: text is what has been written to the formatter, comps the
\* parts written so far (the unit, the value written and its digits).
PutPart(pw, val, prec, short, long) ==
    LET v == IF prec = 0 THEN Floor(val) ELSE val
        sep == IF pw.written > 0 /\ ~pw.compact THEN <<" ">> ELSE <<>>
        num == FmtFixed(ToF64(v), prec)
        unit == IF pw.compact THEN short ELSE <<" ">> \o long
    IN  [pw EXCEPT !.text = @ \o sep \o num \o unit,
                   !.written = @ + 1,
                   !.comps = Append(@, [unit |-> short, val |-> v, num |-> num])]

\* Durations below a minute are written as a scalar quantity of seconds.
FmtScalar(d) ==
    LET qq == [QuantityNew("Decimal", d.seconds) EXCEPT
                   !.sfx_str = <<"s">>, !.spc = ~d.compact]
    IN  [branch |-> "scalar", text |-> Fmt(qq).text, written |-> 0,
         comps |-> <<>>]

FmtParts(d) ==
    LET sec == d.seconds
        pw0 == PartWriterNew(d)
        pw1 == IF KeepGoing(pw0) /\ Gt(sec, WEEK_SECS)
               THEN PutPart(pw0, Quot(Ratio(sec), WEEK_SECS), 0,
                            <<"w">>, <<"w", "e", "e", "k", "s">>)
               ELSE pw0
        pw2 == IF KeepGoing(pw1) /\ Gt(sec, DAY_SECS)
               THEN PutPart(pw1, Quot(Rem(sec, WEEK_SECS), DAY_SECS), 0,
                            <<"d">>, <<"d", "a", "y", "s">>)
               ELSE pw1
        pw3 == IF KeepGoing(pw2) /\ Gt(sec, HOUR_SECS)
               THEN PutPart(pw2, Quot(Rem(sec, DAY_SECS), HOUR_SECS), 0,
                            <<"h">>, <<"h", "o", "u", "r", "s">>)
               ELSE pw2
        pw4 == IF KeepGoing(pw3) /\ Gt(sec, MIN_SECS)
               THEN PutPart(pw3, Quot(Rem(sec, HOUR_SECS), MIN_SECS), 0,
                            <<"m">>, <<"m", "i", "n", "u", "t", "e", "s">>)
               ELSE pw3
        pw5 == IF KeepGoing(pw4)
               THEN PutPart(pw4, Rem(sec, MIN_SECS), 2,
                            <<"s">>, <<"s", "e", "c", "o", "n", "d", "s">>)
               ELSE pw4
    IN  [branch |-> "parts", text |-> pw5.text, written |-> pw5.written,
         comps |-> pw5.comps]

FmtDuration(d) ==
    IF AbsLt(d.seconds, MIN_SECS) THEN FmtScalar(d) ELSE FmtParts(d)

(***************************************************************************)
(* Durations: construction, the builder calls, formatting.                 *)
(***************************************************************************)
\* weeks of the durations tried: 0 .. MaxWeeks
MaxWeeks == 1

\* Whole days, hours, minutes and seconds at both ends of each unit, and
\* fractions of a second that round down, up and across a whole second.
DayCounts == {0, 1, 6}
HourCounts == {0, 1, 23}
MinuteCounts == {0, 1, 59}
SecondCounts == {0, 1, 59}
MilliCounts == {0, 1, 500, 994, 999}

DurationMillis ==
    { ((((w * 7 + d) * 24 + h) * 60 + m) * 60 + sc) * Millis + ms :
        w \in 0..MaxWeeks, d \in DayCounts, h \in HourCounts,
        m \in MinuteCounts, sc \in SecondCounts, ms \in MilliCounts }

DurationInputs == { Seconds(ms) : ms \in DurationMillis }
                      \cup { Seconds(0 - ms) : ms \in DurationMillis }

PartCounts == (0 - 1)..MaxParts

InitDuration ==
    /\ hd \in { new_from_secs(v) : v \in DurationInputs }
    /\ dout = None
    /\ ar = None /\ sr = None /\ q = None /\ out = None

SetCompact ==
    \E b \in BOOLEAN :
        /\ hd' = [hd EXCEPT !.compact = b]
        /\ dout' = None
        /\ UNCHANGED <<ar, sr, q, out>>

SetParts ==
    \E p \in PartCounts :
        /\ hd' = [hd EXCEPT !.parts = p]
        /\ dout' = None
        /\ UNCHANGED <<ar, sr, q, out>>

FormatDuration ==
    /\ dout' = [op |-> "fmt"] @@ FmtDuration(hd)
    /\ UNCHANGED <<hd, ar, sr, q, out>>

NextDuration == SetCompact \/ SetParts \/ FormatDuration

SpecDuration == InitDuration /\ [][NextDuration]_vars

(***************************************************************************)
(* Claims about autoscale, checked under SpecAutoscale.                    *)
(***************************************************************************)
ArDone == ar.op = "autoscale"

SetMax(S) == CHOOSE x \in S : \A y \in S : y <= x

\* the indices of the prefixes of F that leave |val / multiplier| >= 1.0
Fits(F, val) ==
    {i \in 1..Len(AllPrefixes(F)) :
        GeOneVal(Abs(Div(val, Normal(FALSE, 1, AllPrefixes(F)[i].exp, val.base))))}

\* C1: for a normal value, in both families, autoscale returns the largest
\* prefix whose scaled magnitude is >= 1.0, or the first prefix of the table
\* when no prefix fits, and the scaled value is the value divided by that
\* prefix's multiplier.
C1_AutoscaleLargestFit ==
    (ArDone /\ IsNormal(ar.val)) =>
        LET pfxs == AllPrefixes(ar.family)
            fits == Fits(ar.family, ar.val)
            best == IF fits = {} THEN 1 ELSE SetMax(fits)
        IN  /\ ar.prefix = pfxs[best]
            /\ ar.sx.neg = ar.val.neg
            /\ ar.sx.mant = ar.val.mant
            /\ ar.sx.exp = ar.val.exp - pfxs[best].exp

C1_Witness ==
    /\ ArDone /\ IsNormal(ar.val) /\ ar.family = "Binary"
    /\ Fits("Binary", ar.val) # {}
    /\ SetMax(Fits("Binary", ar.val)) = 3
    /\ ar.prefix = BinaryALL_PREFIXES[3]

\* C2 as stated: for every value passed to Decimal::autoscale, a prefix above
\* yocto with a normal input gives |sx| >= 1.0, and a prefix below yotta
\* gives |sx| < 1000.0.
C2_Original ==
    (ArDone /\ ar.family = "Decimal") =>
        /\ (Exponent(ar.prefix) > -24 /\ IsNormal(ar.val)) => GeOneVal(Abs(ar.sx))
        /\ Exponent(ar.prefix) < 24 => LtPow(ar.sx, 3)

\* C2 amended: the bound |sx| < 1000.0 is claimed for finite values only.
C2_DecimalBoundsFinite ==
    (ArDone /\ ar.family = "Decimal") =>
        /\ (Exponent(ar.prefix) > -24 /\ IsNormal(ar.val)) => GeOneVal(Abs(ar.sx))
        /\ (Exponent(ar.prefix) < 24 /\ IsFinite(ar.val)) => LtPow(ar.sx, 3)

C2_Witness ==
    /\ ArDone /\ ar.family = "Decimal" /\ IsNormal(ar.val)
    /\ Exponent(ar.prefix) = 3
    /\ ar.sx = Normal(TRUE, 1, 0, 10)

\* the distance between the exponents of adjacent prefixes of a family
PrefixStep(F) == AllPrefixes(F)[2].exp - AllPrefixes(F)[1].exp

InnerPrefix(F, p) ==
    p # AllPrefixes(F)[1] /\ p # AllPrefixes(F)[Len(AllPrefixes(F))]

\* C3 as stated: for a normal value, unless the chosen prefix is the first or
\* the last of the family, the scaled magnitude lies in [1.0, base).
C3_Original ==
    (ArDone /\ IsNormal(ar.val) /\ InnerPrefix(ar.family, ar.prefix)) =>
        GeOneVal(Abs(ar.sx)) /\ LtPow(ar.sx, 1)

\* C3 amended: the scaled magnitude lies in [1.0, base^step), step being the
\* distance between adjacent prefixes: [1, 1000) for Decimal, [1, 1024) for
\* Binary.
C3_ScaledWithinStep ==
    (ArDone /\ IsNormal(ar.val) /\ InnerPrefix(ar.family, ar.prefix)) =>
        GeOneVal(Abs(ar.sx)) /\ LtPow(ar.sx, PrefixStep(ar.family))

C3_Witness ==
    /\ ArDone /\ IsNormal(ar.val) /\ InnerPrefix(ar.family, ar.prefix)
    /\ ar.family = "Decimal"
    /\ ~LtPow(ar.sx, 2)

\* C4: a zero, subnormal, NaN or infinite value comes back unchanged with the
\* family's unit prefix (empty label, exponent 0), and no candidate of the
\* prefix table is examined; in both families.
C4_DegenerateUnchanged ==
    (ArDone /\ ~IsNormal(ar.val)) =>
        /\ ar.sx = ar.val
        /\ ar.prefix.fam = ar.family
        /\ Label(ar.prefix) = <<>>
        /\ Exponent(ar.prefix) = 0
        /\ ar.examined = 0

C4_Witness ==
    /\ ArDone /\ ar.val.kind = "sub" /\ ar.family = "Binary"
    /\ ar.sx = ar.val /\ ar.prefix = BinaryUNIT

(***************************************************************************)
(* Claims about sigscale, checked under SpecSigscale.                      *)
(***************************************************************************)
SrDone == sr.op = "sigscale"

\* the text sigscale's result is printed as
SrText == FmtFixed(sr.adj_val, sr.prec)

IsDigit(c) == \E i \in 1..10 : DigitChars[i] = c

RECURSIVE StripLeadingZeros(_)
StripLeadingZeros(t) ==
    IF t # <<>> /\ Head(t) = "0" THEN StripLeadingZeros(Tail(t)) ELSE t

RECURSIVE StripTrailingZeros(_)
StripTrailingZeros(t) ==
    IF t # <<>> /\ t[Len(t)] = "0"
    THEN StripTrailingZeros(SubSeq(t, 1, Len(t) - 1)) ELSE t

\* the digits of a number's text from its first non-zero digit on
SigDigits(t) == StripLeadingZeros(SelectSeq(t, IsDigit))

\* the number of characters after the decimal point
FracDigits(t) ==
    IF \E i \in 1..Len(t) : t[i] = "."
    THEN Len(t) - (CHOOSE i \in 1..Len(t) : t[i] = ".")
    ELSE 0

\* The text shows exactly n significant digits: with fractional digits every
\* digit from the first non-zero one counts; without, the zeros that end the
\* integer part may be padding, and any number of them may be left out.
ShowsSigDigits(t, n) ==
    IF FracDigits(t) > 0
    THEN Len(SigDigits(t)) = n
    ELSE Len(StripTrailingZeros(SigDigits(t))) <= n /\ n <= Len(SigDigits(t))

\* the rounding of sigscale carried the value up to the next power of ten
Carried(val, adj_val) ==
    NumDigits(adj_val.mant) + adj_val.exp > NumDigits(val.mant) + val.exp

\* C5: for a normal value and n >= 1, sigscale returns decimals >= 0 and a
\* rounded value whose fixed-point text with that many fractional digits
\* shows exactly n significant digits, also when rounding carries the value
\* up to the next power of ten.
C5_Original ==
    (SrDone /\ IsNormal(sr.val) /\ sr.sf >= 1) =>
        /\ sr.prec >= 0
        /\ FracDigits(SrText) = sr.prec
        /\ ShowsSigDigits(SrText, sr.sf)

\* what remains of C5 when the rounding does not carry
C5_HoldsWithoutCarry ==
    (SrDone /\ IsNormal(sr.val) /\ sr.sf >= 1 /\ ~Carried(sr.val, sr.adj_val)) =>
        /\ sr.prec >= 0
        /\ FracDigits(SrText) = sr.prec
        /\ ShowsSigDigits(SrText, sr.sf)

\* |v| >= 0.1
GeTenth(v) == v.kind = "inf" \/ (v.kind = "normal" /\ GeOne(v.mant, v.exp + 1, v.base))

\* C6 as stated: with a significant-figure count of 0, sigscale returns
\* decimals = 0 for every value, so the text has no fractional digits.
C6_Original ==
    (SrDone /\ sr.sf = 0) => (sr.prec = 0 /\ FracDigits(SrText) = 0)

\* C6 amended: with a significant-figure count of 0, decimals is 0 and the
\* text has no fractional digits when the value is not normal or |v| >= 0.1;
\* for a normal |v| < 0.1 decimals is positive: the number of zeros between
\* the decimal point and the first significant digit of v.
C6_ZeroSigFigs ==
    (SrDone /\ sr.sf = 0) =>
        IF ~IsNormal(sr.val) \/ GeTenth(sr.val)
        THEN sr.prec = 0 /\ FracDigits(SrText) = 0
        ELSE /\ sr.prec >= 1
             /\ FracDigits(SrText) = sr.prec
             /\ ~GeOne(sr.val.mant, sr.val.exp + sr.prec, 10)
             /\ GeOne(sr.val.mant, sr.val.exp + sr.prec + 1, 10)

C6_Witness ==
    /\ SrDone /\ sr.sf = 0 /\ sr.val = Normal(FALSE, 5, -2, 10)
    /\ sr.prec = 1

(***************************************************************************)
(* Claims about Quantity formatting, checked under SpecQuantity.           *)
(***************************************************************************)
Formatted == out.op = "fmt"

IsDegenerate(v) == v.kind \in {"zero", "sub", "inf", "nan"}

\* the separator and suffix a configuration asks for after the number
SuffixPart(qq) ==
    (IF qq.spc /\ qq.sfx_str # <<>> THEN <<" ">> ELSE <<>>) \o qq.sfx_str

\* "0" in fixed point with n fractional digits
ZeroText(n) == <<"0">> \o (IF n > 0 THEN <<".">> \o Zeros(n) ELSE <<>>)

C8_Original ==
    (Formatted /\ IsDegenerate(q.value) /\ q.scale \in {ScaleAuto, ScaleNative}) =>
        out.text = Display(q.value) \o SuffixPart(q)

\* C8 amended: for a degenerate value, under Auto as well as Native, scaling
\* and rounding leave the value unchanged and no prefix label is written; the
\* numeric part is the value's Display text when the scale is Native, the
\* integral flag is set or the value is infinite or NaN, and for a zero or
\* subnormal value under Auto with integral unset it is the value in fixed
\* point with sig_figs fractional digits ("0.0000"); suffix and spacing
\* follow per configuration.
C8_DegenerateRendering ==
    (Formatted /\ IsDegenerate(q.value) /\ q.scale \in {ScaleAuto, ScaleNative}) =>
        /\ out.writes[3] = <<>>
        /\ out.branch = "scaled" => (out.sv = q.value /\ Exponent(out.prefix) = 0)
        /\ IF q.scale = ScaleNative \/ q.integral \/ q.value.kind \in {"inf", "nan"}
           THEN out.text = Display(q.value) \o SuffixPart(q)
           ELSE out.text = SignText(q.value) \o ZeroText(q.nsig) \o SuffixPart(q)

C8_Witness ==
    /\ Formatted /\ q.value.kind = "sub" /\ q.value.neg /\ q.scale = ScaleAuto
    /\ ~q.integral /\ q.family = "Binary"
    /\ out.text = <<"-", "0", ".", "0", "0", "0", "0", " ", "B">>

\* the prefix Auto or Fixed scaling resolves to
ResolvedPrefix(qq) ==
    IF qq.scale = ScaleAuto THEN Autoscale(qq.family, qq.value).prefix
    ELSE qq.scale.pfx

\* C9: under Auto or Fixed scaling, an integral Quantity whose resolved prefix
\* has exponent 0 is written as the value's native display followed by the
\* suffix, with no prefix label, no rescaling and no rounding; when the
\* resolved exponent is non-zero or the integral flag is unset, the scaled
\* and rounded branch is used.
C9_IntegralUnitIsNative ==
    (Formatted /\ q.scale # ScaleNative) =>
        LET pfx == ResolvedPrefix(q)
        IN  IF q.integral /\ pfx.exp = 0
            THEN /\ out.branch = "native"
                 /\ out.text = Display(q.value) \o SuffixPart(q)
            ELSE /\ out.branch = "scaled"
                 /\ out.prefix = pfx
                 /\ out.sv = Div(q.value, Normal(FALSE, 1, pfx.exp, q.value.base))
                 /\ out.writes[1] =
                        FmtFixed(Sigscale(out.sv, q.nsig).val, Sigscale(out.sv, q.nsig).prec)
                 /\ out.writes[3] = pfx.pfx

C9_Witness ==
    /\ Formatted /\ q.scale = ScaleAuto /\ q.integral
    /\ q.value = Normal(TRUE, 42, 0, 10)
    /\ out.text = <<"-", "4", "2", " ", "B">>

\* C10: exactly one space separates the number from the unit text if and only
\* if the space flag is set and the unit text is non-empty, the unit text
\* being prefix label + suffix in the scaled branch and the suffix alone in
\* the native branch; otherwise no space is written, and the label is
\* immediately followed by the suffix.
C10_SpaceBeforeUnit ==
    Formatted =>
        LET unit == out.writes[3] \o out.writes[4]
        IN  /\ out.writes[3] = (IF out.branch = "scaled" THEN Label(out.prefix) ELSE <<>>)
            /\ out.writes[4] = q.sfx_str
            /\ out.writes[2] = (IF q.spc /\ unit # <<>> THEN <<" ">> ELSE <<>>)
            /\ out.text = out.writes[1] \o out.writes[2] \o unit
            /\ \A i \in 1..Len(out.writes[1]) : out.writes[1][i] # " "

C10_Witness ==
    /\ Formatted /\ out.branch = "scaled" /\ q.spc /\ q.sfx_str = <<>>
    /\ out.text = <<"1", "0", ".", "3", "2", " ", "k">>

(***************************************************************************)
(* Claims about HumanDuration, checked under SpecDuration.                 *)
(***************************************************************************)
\* fmt has run on hd and took the parts branch (|seconds| >= 60)
PartsWritten == dout.op = "fmt" /\ dout.branch = "parts"

UnitSpans ==
    << [unit |-> <<"w">>, span |-> WEEK_SECS], [unit |-> <<"d">>, span |-> DAY_SECS],
       [unit |-> <<"h">>, span |-> HOUR_SECS], [unit |-> <<"m">>, span |-> MIN_SECS],
       [unit |-> <<"s">>, span |-> 0] >>

\* the units a duration may show, largest first: seconds always, a larger
\* unit when the duration strictly exceeds its span
Eligible(v) ==
    SelectSeq(UnitSpans, LAMBDA u : u.unit = <<"s">> \/ Gt(v, u.span))

\* how many of them a part count p lets through
Allowed(v, p) ==
    IF p > 0 /\ p < Len(Eligible(v)) THEN p ELSE Len(Eligible(v))

\* the value of unit u in v, whatever the part count: whole weeks, days of
\* the week, hours of the day, minutes of the hour, and the remainder of
\* seconds carrying the sign of v
ValueOf(v, u) ==
    LET ms == MillisOf(v)
        whole(k) == [neg |-> v.neg, num |-> k, den |-> 1]
    IN  CASE u = <<"w">> -> whole(ms \div (WEEK_SECS * Millis))
          [] u = <<"d">> -> whole((ms \div (DAY_SECS * Millis)) % 7)
          [] u = <<"h">> -> whole((ms \div (HOUR_SECS * Millis)) % 24)
          [] u = <<"m">> -> whole((ms \div (MIN_SECS * Millis)) % 60)
          [] OTHER -> [neg |-> v.neg, num |-> ms % (MIN_SECS * Millis),
                       den |-> Millis]

\* C11: for |seconds| >= 60 the parts written are the eligible units in the
\* order weeks, days, hours, minutes, seconds (a larger unit is eligible when
\* seconds > its span, seconds always), cut after p of them when p > 0 and
\* all of them when p <= 0; each written part has the value it has in the
\* duration, whatever was left out after it.
C11_PartsInOrder ==
    PartsWritten =>
        LET E == Eligible(hd.seconds)
            n == Allowed(hd.seconds, hd.parts)
        IN  /\ Len(dout.comps) = n
            /\ dout.written = n
            /\ hd.parts > 0 => n <= hd.parts
            /\ \A i \in 1..n :
                  /\ dout.comps[i].unit = E[i].unit
                  /\ dout.comps[i].val = ValueOf(hd.seconds, E[i].unit)

\* a duration with more eligible units than its part count: the rest is cut
C11_Witness ==
    /\ PartsWritten
    /\ hd.parts > 0
    /\ Len(Eligible(hd.seconds)) > hd.parts
    /\ Len(dout.comps) = hd.parts

\* the whole number written for unit u, 0 when u is not written
Written(u) ==
    IF \E i \in 1..Len(dout.comps) : dout.comps[i].unit = u
    THEN (CHOOSE c \in { dout.comps[i] : i \in 1..Len(dout.comps) } :
              c.unit = u).val.num
    ELSE 0

\* the milliseconds the written parts stand for: the whole units are the
\* floored numbers written, the seconds part is the remainder handed to the
\* formatter
WrittenMillis ==
    (((Written(<<"w">>) * 7 + Written(<<"d">>)) * 24 + Written(<<"h">>)) * 60
        + Written(<<"m">>)) * (MIN_SECS * Millis) + Written(<<"s">>)

\* fmt has written all the parts of a duration of a minute or more
AllPartsWritten == PartsWritten /\ ~hd.seconds.neg /\ hd.parts <= 0

\* a duration of exactly one minute, hour, day or week
OnBoundary ==
    MillisOf(hd.seconds) \in
        { MIN_SECS * Millis, HOUR_SECS * Millis, DAY_SECS * Millis,
          WEEK_SECS * Millis }

\* C12: with seconds >= 60 and parts <= 0 the written parts add up to the
\* duration: weeks*604800 + days*86400 + hours*3600 + minutes*60 + seconds
\* = total seconds, a part that is not written counting as 0; in particular
\* for exactly 60, 3600, 86400 and 604800 seconds.
C12_Original == AllPartsWritten => WrittenMillis = MillisOf(hd.seconds)

\* C12, away from the boundaries: the written parts add up to every duration
\* that is not exactly one minute, hour, day or week.
C12_HoldsOffBoundary ==
    AllPartsWritten /\ ~OnBoundary => WrittenMillis = MillisOf(hd.seconds)

\* C12, on the boundaries: the unit the duration equals is left out and the
\* remainders below it are all 0, so the parts add up to nothing.
C12_BoundaryLost == AllPartsWritten /\ OnBoundary => WrittenMillis = 0

\* the number a run of digits denotes
RECURSIVE DigitsValue(_)
DigitsValue(t) ==
    IF t = <<>> THEN 0
    ELSE 10 * DigitsValue(SubSeq(t, 1, Len(t) - 1))
           + ((CHOOSE k \in 1..10 : DigitChars[k] = t[Len(t)]) - 1)

\* fmt has written the seconds part of a duration of a minute or more
SecondsWritten ==
    /\ PartsWritten /\ ~hd.seconds.neg
    /\ dout.comps[Len(dout.comps)].unit = <<"s">>

\* the seconds part as printed, and the remainder it was printed from
SecondsPart == dout.comps[Len(dout.comps)]

\* the printed seconds in hundredths: "59.99" is 5999
PrintedHundredths == DigitsValue(SelectSeq(SecondsPart.num, IsDigit))

\* C13: for seconds >= 60, a written seconds part, printed with two decimal
\* places, is strictly less than 60.00.
C13_Original ==
    SecondsWritten =>
        /\ FracDigits(SecondsPart.num) = 2
        /\ PrintedHundredths < MIN_SECS * 100

\* C13, for the remainder itself: the value handed to the formatter is below
\* 60, and a remainder below 59.995 is printed below 60.00.
C13_RemainderBelowMinute ==
    SecondsWritten =>
        /\ SecondsPart.val.num < MIN_SECS * Millis
        /\ SecondsPart.val.num < MIN_SECS * Millis - 5 =>
               PrintedHundredths < MIN_SECS * 100

\* C13, at the top of the minute: a remainder above 59.995 is printed as
\* 60.00, next to the minutes part when one is written.
C13_RoundsToMinute ==
    SecondsWritten /\ SecondsPart.val.num > MIN_SECS * Millis - 5 =>
        SecondsPart.num = <<"6", "0", ".", "0", "0">>

====
